---- MODULE Spec2Model ----
(***************************************************************************)
(* Model of CFCoreClient (src/src/CFCoreClient.ts): construction, the      *)
(* header policy, the shared #request path with its status-to-error        *)
(* mapping, and the seventeen endpoint operations.  The HTTP transport     *)
(* (axios.request) is the environment: it resolves a call with a 2xx       *)
(* response or rejects it with an error that may carry a response.         *)
(***************************************************************************)
EXTENDS Integers, Sequences, FiniteSets, TLC

VARIABLES
  options,    \* the options object the client keeps by reference
  passed,     \* the field values of that object when it was handed to the constructor
  client,     \* "new" (constructor not yet run), "ready" or "failed"
  ctorError,  \* the error thrown by the constructor, if any
  inflight,   \* call id -> the call awaiting its transport reply
  nextId,     \* id of the next call to be issued
  attempts,   \* call id -> number of requests handed to the transport for it
  settled     \* the most recently settled call: its reply and its outcome

vars == <<options, passed, client, ctorError, inflight, nextId, attempts, settled>>

\* ---------------------------------------------------------------- bounds
MaxCalls == 2

\* ------------------------------------------------------- optional values
\* undefined (an omitted property or argument) and a present value
None == <<>>
Some(v) == <<v>>
\* null: neither undefined nor a value (a caller outside the declared types)
Null == <<"", "">>

\* ------------------------------------------------------------ input sets
ApiKeyInputs == {None, Some(""), Some("key-A")}
BaseURLInputs == {None, Some(""), Some("https://proxy.test")}
OptionInputs == [apiKey : ApiKeyInputs, baseURL : BaseURLInputs]

GameIds == {42}
ModIds == {7}
FileIds == {9}
OptIndex == {None, Some(0)}
OptPageSize == {None, Some(20)}
OptGameId == {None, Some(1)}
OptClassId == {None, Some(6)}
\* option objects of the caller: a property holds a value or undefined
SearchInputs ==
  { [gameId |-> Some(1), index |-> Some(0), pageSize |-> Some(20)],
    [index |-> Some(0), pageSize |-> Some(50), searchFilter |-> Some("map"),
     classId |-> None] }
ModFilesInputs ==
  { None,
    Some([index |-> Some(0), pageSize |-> Some(20), gameVersionTypeId |-> None]) }
ModsBodies == { [modIds |-> <<7, 8>>] }
FeaturedBodies == { [gameId |-> 42, excludedModIds |-> <<7>>] }
FilesBodies == { [fileIds |-> <<9, 10>>] }
FingerprintBodies == { [fingerprints |-> <<1234, 5678>>] }
FuzzyBodies == { [gameId |-> 42, fingerprints |-> <<1234>>] }

OkStatuses == {200, 204}
FailStatuses == {301, 400, 401, 404, 429, 500, 502, 503, 504, 599}
Payloads == { [id |-> 42, name |-> "Foo"] }

\* ------------------------------------------------------------- helpers
\* `${n}` for a non-negative integer
Digit(d) ==
  CASE d = 0 -> "0" [] d = 1 -> "1" [] d = 2 -> "2" [] d = 3 -> "3"
    [] d = 4 -> "4" [] d = 5 -> "5" [] d = 6 -> "6" [] d = 7 -> "7"
    [] d = 8 -> "8" [] d = 9 -> "9"

RECURSIVE NumToStr(_)
NumToStr(n) == IF n < 10 THEN Digit(n) ELSE NumToStr(n \div 10) \o Digit(n % 10)

\* object spread { ...base, ...over }
Spread(base, over) ==
  [k \in (DOMAIN base) \cup (DOMAIN over) |->
     IF k \in DOMAIN over THEN over[k] ELSE base[k]]

\* !v for an optional string
Falsy(v) == v = None \/ v = Null \/ v = Some("")

\* the test of `??=`: null or undefined
Nullish(v) == v = None \/ v = Null

\* ----------------------------------------------------------- error kinds
CFCoreInternalServerError(message, cause) ==
  [ name |-> "CFCoreInternalServerError",
    message |-> IF message = None
                  THEN "Internal server error. Please try again later."
                  ELSE message[1],
    cause |-> cause ]

CFCoreServiceUnavailableError(message, cause) ==
  [ name |-> "CFCoreServiceUnavailableError",
    message |-> IF message = None
                  THEN "Service unavailable. Please try again later."
                  ELSE message[1],
    cause |-> cause ]

\* variant: the name tag copied from the neighbouring class
CFCoreNotFoundError_CopiedName(message, cause) ==
  [ name |-> "CFCoreBadRequestError",
    message |-> IF message = None THEN "Not found." ELSE message[1],
    cause |-> cause ]

CFCoreNotFoundError(message, cause) ==
  [ name |-> "CFCoreNotFoundError",
    message |-> IF message = None THEN "Not found." ELSE message[1],
    cause |-> cause ]

CFCoreBadRequestError(message, cause) ==
  [ name |-> "CFCoreBadRequestError",
    message |-> IF message = None THEN "Bad request." ELSE message[1],
    cause |-> cause ]

\* ---------------------------------------------------------- construction
DefaultBaseURL == "https://api.curseforge.com"

\* variant: only an omitted apiKey is refused, an empty one is accepted
CFCoreClient_OmittedOnly ==
  /\ client = "new"
  /\ IF options.apiKey = None
       THEN /\ client' = "failed"
            /\ ctorError' = Some([name |-> "Error", message |-> "API key is required"])
            /\ UNCHANGED options
       ELSE /\ client' = "ready"
            /\ options' = [options EXCEPT !.baseURL =
                             IF @ = None THEN Some(DefaultBaseURL) ELSE @]
            /\ UNCHANGED ctorError
  /\ UNCHANGED <<passed, inflight, nextId, attempts, settled>>

\* variant: the default applied with `||=`, which also replaces ""
CFCoreClient_OrAssign ==
  /\ client = "new"
  /\ IF Falsy(options.apiKey)
       THEN /\ client' = "failed"
            /\ ctorError' = Some([name |-> "Error", message |-> "API key is required"])
            /\ UNCHANGED options
       ELSE /\ client' = "ready"
            /\ options' = [options EXCEPT !.baseURL =
                             IF Falsy(@) THEN Some(DefaultBaseURL) ELSE @]
            /\ UNCHANGED ctorError
  /\ UNCHANGED <<passed, inflight, nextId, attempts, settled>>

CFCoreClient ==
  /\ client = "new"
  /\ IF Falsy(options.apiKey)
       THEN /\ client' = "failed"
            /\ ctorError' = Some([name |-> "Error", message |-> "API key is required"])
            /\ UNCHANGED options
       ELSE /\ client' = "ready"
            /\ options' = [options EXCEPT !.baseURL =
                             IF Nullish(@) THEN Some(DefaultBaseURL) ELSE @]
            /\ UNCHANGED ctorError
  /\ UNCHANGED <<passed, inflight, nextId, attempts, settled>>

\* ------------------------------------------------------- request building
\* variant: the header set computed once, from the values at construction
makeHeaders_Cached ==
  [k \in {"Content-Type", "x-api-key"} |->
     IF k = "Content-Type" THEN Some("application/json") ELSE passed.apiKey]

makeHeaders ==
  [k \in {"Content-Type", "x-api-key"} |->
     IF k = "Content-Type" THEN Some("application/json") ELSE options.apiKey]

\* the config object handed to axios.request by #request
axiosConfig(path, opts) ==
  Spread([k \in {"baseURL", "url", "method", "headers"} |->
            CASE k = "baseURL" -> options.baseURL
              [] k = "url" -> Some(path)
              [] k = "method" -> Some("GET")
              [] k = "headers" -> Some(makeHeaders)],
         opts)

\* variant: the per-call headers replace the header set instead of extending it
PostOptions_HeadersReplaced(body) ==
  [k \in {"method", "data", "headers"} |->
     CASE k = "method" -> Some("POST")
       [] k = "data" -> Some(body)
       [] k = "headers" -> Some([h \in {"Content-Type"} |-> Some("application/json")])]

\* the option object of the five POST operations
PostOptions(body) ==
  [k \in {"method", "data", "headers"} |->
     CASE k = "method" -> Some("POST")
       [] k = "data" -> Some(body)
       [] k = "headers" ->
            Some(Spread(makeHeaders,
                        [h \in {"Content-Type"} |-> Some("application/json")]))]

ParamsOptions(params) == [k \in {"params"} |-> params]

NoOptions == <<>>

\* the query the transport sends for a request config: the entries of its
\* params object that hold a value, under their own names
Query(config) ==
  IF "params" \notin DOMAIN config \/ config.params = None
    THEN <<>>
    ELSE LET p == config.params[1] IN
         [k \in {j \in DOMAIN p : p[j] # None} |-> p[k][1]]

\* #request up to the await: one request is handed to the transport
request(op, args, path, opts) ==
  /\ client = "ready"
  /\ nextId <= MaxCalls
  /\ inflight' = inflight @@
       (nextId :> [op |-> op, args |-> args, config |-> axiosConfig(path, opts)])
  /\ attempts' = [attempts EXCEPT ![nextId] = @ + 1]
  /\ nextId' = nextId + 1
  /\ UNCHANGED <<options, passed, client, ctorError, settled>>

Init ==
  /\ options \in OptionInputs
  /\ passed = options
  /\ client = "new"
  /\ ctorError = None
  /\ inflight = <<>>
  /\ nextId = 1
  /\ attempts = [c \in 1..MaxCalls |-> 0]
  /\ settled = None

\* ------------------------------------------------------------ operations
\* variant: an omitted page size sent as a default instead of left out
getGames_DefaultPageSize ==
  \E index \in OptIndex, pageSize \in OptPageSize :
    request("getGames", <<index, pageSize>>, "/v1/games",
            ParamsOptions(Some([index |-> index,
                                pageSize |-> IF pageSize = None
                                               THEN Some(50) ELSE pageSize])))

getGames ==
  \E index \in OptIndex, pageSize \in OptPageSize :
    request("getGames", <<index, pageSize>>, "/v1/games",
            ParamsOptions(Some([index |-> index, pageSize |-> pageSize])))

getGame ==
  \E gameId \in GameIds :
    request("getGame", <<gameId>>, "/v1/games/" \o NumToStr(gameId), NoOptions)

getVersions ==
  \E gameId \in GameIds :
    request("getVersions", <<gameId>>,
            "/v1/games/" \o NumToStr(gameId) \o "/versions", NoOptions)

getVersionTypes ==
  \E gameId \in GameIds :
    request("getVersionTypes", <<gameId>>,
            "/v1/games/" \o NumToStr(gameId) \o "/version-types", NoOptions)

getCategories ==
  \E gameId \in OptGameId, classId \in OptClassId :
    request("getCategories", <<gameId, classId>>, "/v1/categories",
            ParamsOptions(Some([gameId |-> gameId, classId |-> classId])))

searchMods ==
  \E opts \in SearchInputs :
    request("searchMods", <<opts>>, "/v1/mods/search", ParamsOptions(Some(opts)))

getMod ==
  \E modId \in ModIds :
    request("getMod", <<modId>>, "/v1/mods/" \o NumToStr(modId), NoOptions)

getMods ==
  \E body \in ModsBodies :
    request("getMods", <<body>>, "/v1/mods", PostOptions(body))

getFeaturedMods ==
  \E body \in FeaturedBodies :
    request("getFeaturedMods", <<body>>, "/v1/mods/featured", PostOptions(body))

getModDescription ==
  \E modId \in ModIds :
    request("getModDescription", <<modId>>,
            "/v1/mods/" \o NumToStr(modId) \o "/description", NoOptions)

\* variant: the two ids embedded in the opposite order
getModFile_Swapped ==
  \E modId \in ModIds, fileId \in FileIds :
    request("getModFile", <<modId, fileId>>,
            "/v1/mods/" \o NumToStr(fileId) \o "/files/" \o NumToStr(modId),
            NoOptions)

getModFile ==
  \E modId \in ModIds, fileId \in FileIds :
    request("getModFile", <<modId, fileId>>,
            "/v1/mods/" \o NumToStr(modId) \o "/files/" \o NumToStr(fileId),
            NoOptions)

getModFiles ==
  \E modId \in ModIds, opts \in ModFilesInputs :
    request("getModFiles", <<modId, opts>>,
            "/v1/mods/" \o NumToStr(modId) \o "/files", ParamsOptions(opts))

\* variant: the method override left out
getFiles_NoMethod ==
  \E body \in FilesBodies :
    request("getFiles", <<body>>, "/v1/mods/files",
            [k \in {"data", "headers"} |->
               IF k = "data" THEN Some(body) ELSE PostOptions(body).headers])

getFiles ==
  \E body \in FilesBodies :
    request("getFiles", <<body>>, "/v1/mods/files", PostOptions(body))

getModFileChangelog ==
  \E modId \in ModIds, fileId \in FileIds :
    request("getModFileChangelog", <<modId, fileId>>,
            "/v1/mods/" \o NumToStr(modId) \o "/files/" \o NumToStr(fileId)
              \o "/changelog",
            NoOptions)

getModFileDownloadUrl ==
  \E modId \in ModIds, fileId \in FileIds :
    request("getModFileDownloadUrl", <<modId, fileId>>,
            "/v1/mods/" \o NumToStr(modId) \o "/files/" \o NumToStr(fileId)
              \o "/download-url",
            NoOptions)

\* variant: the body wrapped in an object of its own ({ body })
getFingerprintsMatches_Wrapped ==
  \E body \in FingerprintBodies :
    request("getFingerprintsMatches", <<body>>, "/v1/fingerprints",
            PostOptions([body |-> body]))

getFingerprintsMatches ==
  \E body \in FingerprintBodies :
    request("getFingerprintsMatches", <<body>>, "/v1/fingerprints",
            PostOptions(body))

getFingerprintsFuzzyMatches ==
  \E body \in FuzzyBodies :
    request("getFingerprintsFuzzyMatches", <<body>>, "/v1/fingerprints/fuzzy",
            PostOptions(body))

\* ------------------------------------------------------ transport replies
\* what axios.request can settle call c with
Responses(statuses) ==
  { [status |-> s, data |-> [data |-> p]] : s \in statuses, p \in Payloads }

TransportErrors(c) ==
  { [name |-> "AxiosError", oid |-> c, response |-> r] :
      r \in {None} \cup { Some(resp) : resp \in Responses(FailStatuses) } }

\* variant: the envelope unwrapped one level too far
ResponseData_Unwrapped(response) ==
  [result |-> response.data.data, response |-> response]

\* return { result: response.data, response }
ResponseData(response) == [result |-> response.data, response |-> response]

\* variant: the >= 500 test placed before the 503 test
requestCatch_500First(err) ==
  IF err.response # None
    THEN LET status == err.response[1].status IN
         IF status >= 500 THEN CFCoreInternalServerError(None, Some(err))
         ELSE IF status = 503 THEN CFCoreServiceUnavailableError(None, Some(err))
         ELSE IF status = 404 THEN CFCoreNotFoundError(None, Some(err))
         ELSE IF status = 400 THEN CFCoreBadRequestError(None, Some(err))
         ELSE err
    ELSE err

\* variant: every 4xx status other than 404 reported as a bad request
requestCatch_Any4xx(err) ==
  IF err.response # None
    THEN LET status == err.response[1].status IN
         IF status = 503 THEN CFCoreServiceUnavailableError(None, Some(err))
         ELSE IF status >= 500 THEN CFCoreInternalServerError(None, Some(err))
         ELSE IF status = 404 THEN CFCoreNotFoundError(None, Some(err))
         ELSE IF status >= 400 THEN CFCoreBadRequestError(None, Some(err))
         ELSE err
    ELSE err

\* variant: the mapped errors built without their cause
requestCatch_NoCause(err) ==
  IF err.response # None
    THEN LET status == err.response[1].status IN
         IF status = 503 THEN CFCoreServiceUnavailableError(None, None)
         ELSE IF status >= 500 THEN CFCoreInternalServerError(None, None)
         ELSE IF status = 404 THEN CFCoreNotFoundError(None, None)
         ELSE IF status = 400 THEN CFCoreBadRequestError(None, None)
         ELSE err
    ELSE err

\* the catch clause of #request: the error the call fails with
requestCatch(err) ==
  IF err.response # None
    THEN LET status == err.response[1].status IN
         IF status = 503 THEN CFCoreServiceUnavailableError(None, Some(err))
         ELSE IF status >= 500 THEN CFCoreInternalServerError(None, Some(err))
         ELSE IF status = 404 THEN CFCoreNotFoundError(None, Some(err))
         ELSE IF status = 400 THEN CFCoreBadRequestError(None, Some(err))
         ELSE err
    ELSE err

Drop(f, c) == [d \in (DOMAIN f) \ {c} |-> f[d]]

\* variant: replies are handed to the pending calls in issue order, so the
\* response to call c goes to the oldest pending call
Resolved_InIssueOrder(c) ==
  LET oldest == CHOOSE m \in DOMAIN inflight : \A d \in DOMAIN inflight : m <= d
  IN /\ \E response \in Responses(OkStatuses) :
          settled' = Some([ id |-> oldest,
                            reply |-> [kind |-> "resolved", call |-> c,
                                      response |-> response],
                            outcome |-> [kind |-> "return",
                                         value |-> ResponseData(response)] ])
     /\ inflight' = Drop(inflight, oldest)
     /\ UNCHANGED <<options, passed, client, ctorError, nextId, attempts>>

\* the transport resolves call c: the operation returns
Resolved(c) ==
  /\ \E response \in Responses(OkStatuses) :
       settled' = Some([ id |-> c,
                         reply |-> [kind |-> "resolved", call |-> c,
                                   response |-> response],
                         outcome |-> [kind |-> "return",
                                      value |-> ResponseData(response)] ])
  /\ inflight' = Drop(inflight, c)
  /\ UNCHANGED <<options, passed, client, ctorError, nextId, attempts>>

\* variant: a 503 is answered by handing the request to the transport again
Rejected_Retry503(c) ==
  \E err \in TransportErrors(c) :
    IF err.response # None /\ err.response[1].status = 503 /\ attempts[c] < 2
      THEN /\ attempts' = [attempts EXCEPT ![c] = @ + 1]
           /\ UNCHANGED <<options, passed, client, ctorError, inflight, nextId,
                          settled>>
      ELSE /\ settled' = Some([ id |-> c,
                                reply |-> [kind |-> "rejected", call |-> c, error |-> err],
                                outcome |-> [kind |-> "throw",
                                             error |-> requestCatch(err)] ])
           /\ inflight' = Drop(inflight, c)
           /\ UNCHANGED <<options, passed, client, ctorError, nextId, attempts>>

\* the transport rejects call c: the operation throws
Rejected(c) ==
  /\ \E err \in TransportErrors(c) :
       settled' = Some([ id |-> c,
                         reply |-> [kind |-> "rejected", call |-> c, error |-> err],
                         outcome |-> [kind |-> "throw",
                                      error |-> requestCatch(err)] ])
  /\ inflight' = Drop(inflight, c)
  /\ UNCHANGED <<options, passed, client, ctorError, nextId, attempts>>

\* ------------------------------------------------- the caller's reference
\* the caller assigns new values to the fields of the options object it
\* passed to the client (one synchronous block of the caller)
WriteInputs == { [apiKey |-> Some("key-B"), baseURL |-> Some("https://mirror.test")] }

WriteOptions ==
  /\ client = "ready"
  /\ \E w \in WriteInputs :
       /\ options # w
       /\ options' = w
  /\ UNCHANGED <<passed, client, ctorError, inflight, nextId, attempts, settled>>

\* ---------------------------------------------------------- specification
Operation ==
  \/ getGames
  \/ getGame
  \/ getVersions
  \/ getVersionTypes
  \/ getCategories
  \/ searchMods
  \/ getMod
  \/ getMods
  \/ getFeaturedMods
  \/ getModDescription
  \/ getModFile
  \/ getModFiles
  \/ getFiles
  \/ getModFileChangelog
  \/ getModFileDownloadUrl
  \/ getFingerprintsMatches
  \/ getFingerprintsFuzzyMatches

Reply == \E c \in DOMAIN inflight : Resolved(c) \/ Rejected(c)

Next ==
  \/ CFCoreClient
  \/ Operation
  \/ Reply

\* the client and its transport, the options object left alone by the caller
Spec == Init /\ [][Next]_vars

\* the same, with a caller that also writes to the options object
NextCfg == Next \/ WriteOptions

\* the base URL is left to its default at construction, so that every base
\* URL other than the default comes from a later write
InitCfg == Init /\ options.baseURL = None

SpecCfg == InitCfg /\ [][NextCfg]_vars

\* the client called from untyped JavaScript: baseURL may also be null
InitJs ==
  /\ options \in [apiKey : ApiKeyInputs, baseURL : BaseURLInputs \cup {Null}]
  /\ passed = options
  /\ client = "new"
  /\ ctorError = None
  /\ inflight = <<>>
  /\ nextId = 1
  /\ attempts = [c \in 1..MaxCalls |-> 0]
  /\ settled = None

SpecJs == InitJs /\ [][Next]_vars

\* ================================================================ claims
MappedNames ==
  { "CFCoreServiceUnavailableError", "CFCoreInternalServerError",
    "CFCoreNotFoundError", "CFCoreBadRequestError" }

\* the settled call was rejected by the transport / with a response
WasRejected == settled # None /\ settled[1].reply.kind = "rejected"
HadResponse == WasRejected /\ settled[1].reply.error.response # None
WasResolved == settled # None /\ settled[1].reply.kind = "resolved"
ReplyError == settled[1].reply.error
ReplyStatus == settled[1].reply.error.response[1].status
Outcome == settled[1].outcome
Threw == Outcome.kind = "throw"

\* C1: a failure carrying a response with status s raises ServiceUnavailable
\* for s = 503, InternalServerError for s >= 500 other than 503, NotFound for
\* s = 404 and BadRequest for s = 400; a 503 is never an InternalServerError.
C1_StatusMapping ==
  HadResponse =>
    /\ Threw
    /\ ReplyStatus = 503 => Outcome.error.name = "CFCoreServiceUnavailableError"
    /\ (ReplyStatus >= 500 /\ ReplyStatus # 503) =>
         Outcome.error.name = "CFCoreInternalServerError"
    /\ ReplyStatus = 404 => Outcome.error.name = "CFCoreNotFoundError"
    /\ ReplyStatus = 400 => Outcome.error.name = "CFCoreBadRequestError"

C1_Witness ==
  /\ HadResponse
  /\ ReplyStatus = 503
  /\ Outcome.error.name = "CFCoreServiceUnavailableError"

\* C2: a failure with no response, or with a status below 500 other than 400
\* and 404, makes the operation fail with the very same transport error, and
\* with none of the four mapped kinds.
Unmapped ==
  /\ WasRejected
  /\ \/ ~HadResponse
     \/ (ReplyStatus < 500 /\ ReplyStatus \notin {400, 404})

C2_RawRethrow ==
  Unmapped =>
    /\ Threw
    /\ Outcome.error = ReplyError
    /\ Outcome.error.name \notin MappedNames

C2_Witness ==
  /\ WasRejected
  /\ ~HadResponse
  /\ Threw
  /\ Outcome.error = ReplyError

\* C3 as stated: every non-2xx response makes the call fail with a typed
\* error that carries the transport error as its cause.
C3_AlwaysTyped ==
  HadResponse =>
    /\ Threw
    /\ Outcome.error.name \in MappedNames
    /\ Outcome.error.cause = Some(ReplyError)

\* C3 (amended): on a non-2xx response the call returns no value; it fails
\* with a typed error carrying the transport error as its cause when the
\* status is 400, 404 or at least 500, and with the transport error itself
\* for every other status.
C3_TypedOrRaw ==
  HadResponse =>
    /\ Threw
    /\ IF ReplyStatus \in {400, 404} \/ ReplyStatus >= 500
         THEN /\ Outcome.error.name \in MappedNames
              /\ Outcome.error.cause = Some(ReplyError)
         ELSE Outcome.error = ReplyError

C3_Witness ==
  /\ HadResponse
  /\ ReplyStatus = 500
  /\ Threw
  /\ Outcome.error.cause = Some(ReplyError)

\* C4: a mapped error raised by an operation has the transport error of that
\* call as its cause, the name tag of its kind (the four tags are distinct)
\* and the default message of its kind; a message given to the constructor
\* replaces the default.
DefaultMessage(name) ==
  CASE name = "CFCoreServiceUnavailableError" ->
         "Service unavailable. Please try again later."
    [] name = "CFCoreInternalServerError" ->
         "Internal server error. Please try again later."
    [] name = "CFCoreNotFoundError" -> "Not found."
    [] name = "CFCoreBadRequestError" -> "Bad request."

KindOfStatus(s) ==
  IF s = 503 THEN "CFCoreServiceUnavailableError"
  ELSE IF s >= 500 THEN "CFCoreInternalServerError"
  ELSE IF s = 404 THEN "CFCoreNotFoundError"
  ELSE "CFCoreBadRequestError"

Messages == {"", "gone"}

C4_MappedErrorShape ==
  /\ (HadResponse /\ (ReplyStatus \in {400, 404} \/ ReplyStatus >= 500)) =>
       /\ Threw
       /\ Outcome.error.cause = Some(ReplyError)
       /\ Outcome.error.name = KindOfStatus(ReplyStatus)
       /\ Outcome.error.message = DefaultMessage(Outcome.error.name)
  /\ Cardinality({ CFCoreServiceUnavailableError(None, None).name,
                   CFCoreInternalServerError(None, None).name,
                   CFCoreNotFoundError(None, None).name,
                   CFCoreBadRequestError(None, None).name }) = 4
  /\ \A m \in Messages :
       /\ CFCoreServiceUnavailableError(Some(m), None).message = m
       /\ CFCoreInternalServerError(Some(m), None).message = m
       /\ CFCoreNotFoundError(Some(m), None).message = m
       /\ CFCoreBadRequestError(Some(m), None).message = m

C4_Witness ==
  /\ HadResponse
  /\ ReplyStatus = 404
  /\ Threw
  /\ Outcome.error.name = "CFCoreNotFoundError"
  /\ Outcome.error.cause = Some(ReplyError)
  /\ Outcome.error.message = "Not found."

\* C5: construction fails at once when apiKey is empty or omitted, and then
\* no client exists and no request is issued; with a non-empty apiKey it
\* succeeds, with the production endpoint as base URL when baseURL was
\* omitted and the supplied value otherwise.
HeadersOf(c) == inflight[c].config.headers[1]

C5_Construction ==
  /\ client = "failed" =>
       /\ Falsy(passed.apiKey)
       /\ ctorError = Some([name |-> "Error", message |-> "API key is required"])
  /\ client = "ready" =>
       /\ ~Falsy(passed.apiKey)
       /\ ctorError = None
       /\ options.baseURL =
            (IF passed.baseURL = None
               THEN Some("https://api.curseforge.com")
               ELSE passed.baseURL)
  /\ client # "ready" =>
       /\ inflight = <<>>
       /\ settled = None
       /\ \A c \in 1..MaxCalls : attempts[c] = 0
  /\ \A c \in DOMAIN inflight : ~Falsy(HeadersOf(c)["x-api-key"])

C5_Witness ==
  /\ client = "failed"
  /\ passed.apiKey = Some("")
  /\ ctorError # None

\* C6: every request handed to the transport, by a GET or a POST operation,
\* carries the API-key header with the value passed at construction, and
\* Content-Type: application/json.
C6_ApiKeyHeader ==
  \A c \in DOMAIN inflight :
    /\ "headers" \in DOMAIN inflight[c].config
    /\ DOMAIN HeadersOf(c) = {"Content-Type", "x-api-key"}
    /\ HeadersOf(c)["x-api-key"] = passed.apiKey
    /\ HeadersOf(c)["Content-Type"] = Some("application/json")

C6_Witness ==
  \E c, d \in DOMAIN inflight :
    /\ inflight[c].config.method = Some("GET")
    /\ inflight[d].config.method = Some("POST")
    /\ HeadersOf(c)["x-api-key"] = Some("key-A")
    /\ HeadersOf(d)["x-api-key"] = Some("key-A")

\* C7: the header set and the base URL of a request are the values of the
\* configuration at the moment the request is issued, so a call issued after
\* a change uses the new values, and a call issued before it keeps its own.
C7_FreshPerRequest ==
  [][ /\ \A c \in (DOMAIN inflight') \ (DOMAIN inflight) :
           /\ inflight'[c].config.headers[1]["x-api-key"] = options.apiKey
           /\ inflight'[c].config.baseURL = options.baseURL
      /\ \A c \in (DOMAIN inflight') \cap (DOMAIN inflight) :
           inflight'[c].config = inflight[c].config ]_vars

C7_Witness ==
  \E c, d \in DOMAIN inflight :
    /\ c < d
    /\ HeadersOf(c)["x-api-key"] = passed.apiKey
    /\ HeadersOf(d)["x-api-key"] = Some("key-B")
    /\ inflight[c].config.baseURL # inflight[d].config.baseURL
    /\ inflight[d].config.baseURL = Some("https://mirror.test")
    /\ inflight[d].config.method = Some("POST")

\* C8: every call hands exactly one request to the transport, whether it is
\* still pending, has returned, or has failed with a mapped or a raw error.
C8_OneAttempt ==
  /\ \A c \in 1..MaxCalls : attempts[c] = (IF c < nextId THEN 1 ELSE 0)
  /\ \A c \in DOMAIN inflight : c < nextId
  /\ settled # None => (settled[1].id < nextId /\ attempts[settled[1].id] = 1)

C8_Witness ==
  /\ HadResponse
  /\ ReplyStatus = 503
  /\ Threw
  /\ attempts[settled[1].id] = 1
  /\ settled[1].id \notin DOMAIN inflight

\* C9: on a 2xx response the operation returns {response, result} with the
\* transport response unchanged and result equal to its parsed data, so that
\* result.data is the payload; a 2xx response never produces an error.
C9_SuccessPair ==
  WasResolved =>
    /\ Outcome.kind = "return"
    /\ DOMAIN Outcome.value = {"response", "result"}
    /\ Outcome.value.response = settled[1].reply.response
    /\ Outcome.value.result = settled[1].reply.response.data
    /\ Outcome.value.result.data \in Payloads

C9_Witness ==
  /\ WasResolved
  /\ settled[1].reply.response.status = 200
  /\ Outcome.kind = "return"
  /\ Outcome.value.result.data.id = 42

\* C10: exactly the five operations getMods, getFeaturedMods, getFiles,
\* getFingerprintsMatches and getFingerprintsFuzzyMatches issue a POST with
\* the caller's object as body and no query parameters; every other
\* operation issues a GET with no body.
PostOperations ==
  { "getMods", "getFeaturedMods", "getFiles", "getFingerprintsMatches",
    "getFingerprintsFuzzyMatches" }

C10_MethodSelection ==
  \A c \in DOMAIN inflight :
    LET call == inflight[c] IN
    IF call.op \in PostOperations
      THEN /\ call.config.method = Some("POST")
           /\ "data" \in DOMAIN call.config
           /\ call.config.data = Some(call.args[1])
           /\ "params" \notin DOMAIN call.config
      ELSE /\ call.config.method = Some("GET")
           /\ "data" \notin DOMAIN call.config

C10_Witness ==
  \E c, d \in DOMAIN inflight :
    /\ inflight[c].op = "getFiles"
    /\ inflight[c].config.method = Some("POST")
    /\ inflight[c].config.data = Some([fileIds |-> <<9, 10>>])
    /\ inflight[d].op = "getModFiles"
    /\ inflight[d].config.method = Some("GET")

\* C11: for getGames, getCategories, searchMods and getModFiles the query of
\* the outgoing request holds exactly the parameters the caller supplied,
\* each under its name and with its value; an omitted parameter is absent.
QueryOperations == {"getGames", "getCategories", "searchMods", "getModFiles"}

\* the parameters the caller supplied to a call, by name
Supplied(call) ==
  CASE call.op = "getGames" ->
         [index |-> call.args[1], pageSize |-> call.args[2]]
    [] call.op = "getCategories" ->
         [gameId |-> call.args[1], classId |-> call.args[2]]
    [] call.op = "searchMods" -> call.args[1]
    [] call.op = "getModFiles" ->
         IF call.args[2] = None THEN <<>> ELSE call.args[2][1]

SuppliedNames(call) ==
  {k \in DOMAIN Supplied(call) : Supplied(call)[k] # None}

C11_QueryIsSupplied ==
  \A c \in DOMAIN inflight :
    inflight[c].op \in QueryOperations =>
      LET call == inflight[c]
          q == Query(call.config)
      IN /\ call.config.method = Some("GET")
         /\ DOMAIN q = SuppliedNames(call)
         /\ \A k \in SuppliedNames(call) : Some(q[k]) = Supplied(call)[k]

C11_Witness ==
  \E c, d \in DOMAIN inflight :
    /\ inflight[c].op = "searchMods"
    /\ DOMAIN Query(inflight[c].config) = {"gameId", "index", "pageSize"}
    /\ Query(inflight[c].config).gameId = 1
    /\ Query(inflight[c].config).pageSize = 20
    /\ inflight[d].op = "getGames"
    /\ inflight[d].args = <<Some(0), None>>
    /\ DOMAIN Query(inflight[d].config) = {"index"}

\* C12: for every POST operation the body handed to the transport equals the
\* object the caller supplied, Content-Type is application/json, the header
\* override keeps the API-key header, and the caller's object stays as it
\* was supplied for as long as the call is pending.
CallerBodies(op) ==
  CASE op = "getMods" -> ModsBodies
    [] op = "getFeaturedMods" -> FeaturedBodies
    [] op = "getFiles" -> FilesBodies
    [] op = "getFingerprintsMatches" -> FingerprintBodies
    [] op = "getFingerprintsFuzzyMatches" -> FuzzyBodies

C12_PostBody ==
  [][ \A c \in DOMAIN inflight' :
        inflight'[c].op \in PostOperations =>
          LET call == inflight'[c]
              headers == call.config.headers[1]
          IN /\ call.args[1] \in CallerBodies(call.op)
             /\ call.config.data = Some(call.args[1])
             /\ headers["Content-Type"] = Some("application/json")
             /\ "x-api-key" \in DOMAIN headers
             /\ headers["x-api-key"] = passed.apiKey
             /\ c \in DOMAIN inflight => call = inflight[c] ]_vars

C12_Witness ==
  \E c, d \in DOMAIN inflight :
    /\ c < d
    /\ inflight[c].op = "getFingerprintsMatches"
    /\ inflight[c].args = << [fingerprints |-> <<1234, 5678>>] >>
    /\ inflight[c].config.data = Some([fingerprints |-> <<1234, 5678>>])
    /\ HeadersOf(c)["x-api-key"] = Some("key-A")
    /\ inflight[d].op = "getMods"
    /\ inflight[d].config.data = Some([modIds |-> <<7, 8>>])

\* C13: concurrent calls are independent under every interleaving: a reply
\* settles the call it was sent for and no other, the outcome of that call is
\* a function of its own reply, every other pending call is left as it was,
\* and no call writes the configuration.
ExpectedOutcome(reply) ==
  IF reply.kind = "resolved"
    THEN [kind |-> "return",
          value |-> [response |-> reply.response, result |-> reply.response.data]]
    ELSE IF reply.error.response = None
      THEN [kind |-> "throw", error |-> reply.error]
      ELSE LET s == reply.error.response[1].status IN
           IF s \in {400, 404} \/ s >= 500
             THEN [kind |-> "throw",
                   error |-> [name |-> KindOfStatus(s),
                              message |-> DefaultMessage(KindOfStatus(s)),
                              cause |-> Some(reply.error)]]
             ELSE [kind |-> "throw", error |-> reply.error]

C13_Independent ==
  [][ /\ \A c \in (DOMAIN inflight) \ (DOMAIN inflight') :
           /\ settled' # None
           /\ settled'[1].id = c
           /\ settled'[1].reply.call = c
           /\ settled'[1].outcome = ExpectedOutcome(settled'[1].reply)
           /\ \A d \in (DOMAIN inflight) \ {c} :
                d \in DOMAIN inflight' /\ inflight'[d] = inflight[d]
      /\ \A c \in (DOMAIN inflight) \cap (DOMAIN inflight') :
           inflight'[c] = inflight[c]
      /\ settled' # settled =>
           Cardinality((DOMAIN inflight) \ (DOMAIN inflight')) = 1
      /\ (inflight' # inflight \/ settled' # settled) => options' = options
    ]_vars

C13_Witness ==
  /\ settled # None
  /\ settled[1].id = 2
  /\ settled[1].reply.call = 2
  /\ settled[1].reply.kind = "resolved"
  /\ 1 \in DOMAIN inflight
  /\ inflight[1].config.baseURL # options.baseURL

\* C14: path parameters are embedded positionally and in argument order: for
\* getModFile, getModFileChangelog and getModFileDownloadUrl the first
\* argument fills the mod segment and the second the file segment; and two
\* different operations never address the same method and path.
\* the endpoint table of the documentation comments: the path as segments,
\* "{1}" and "{2}" standing for the first and the second argument
PathTemplate(op) ==
  CASE op = "getGames" -> <<"v1", "games">>
    [] op = "getGame" -> <<"v1", "games", "{1}">>
    [] op = "getVersions" -> <<"v1", "games", "{1}", "versions">>
    [] op = "getVersionTypes" -> <<"v1", "games", "{1}", "version-types">>
    [] op = "getCategories" -> <<"v1", "categories">>
    [] op = "searchMods" -> <<"v1", "mods", "search">>
    [] op = "getMod" -> <<"v1", "mods", "{1}">>
    [] op = "getMods" -> <<"v1", "mods">>
    [] op = "getFeaturedMods" -> <<"v1", "mods", "featured">>
    [] op = "getModDescription" -> <<"v1", "mods", "{1}", "description">>
    [] op = "getModFile" -> <<"v1", "mods", "{1}", "files", "{2}">>
    [] op = "getModFiles" -> <<"v1", "mods", "{1}", "files">>
    [] op = "getFiles" -> <<"v1", "mods", "files">>
    [] op = "getModFileChangelog" ->
         <<"v1", "mods", "{1}", "files", "{2}", "changelog">>
    [] op = "getModFileDownloadUrl" ->
         <<"v1", "mods", "{1}", "files", "{2}", "download-url">>
    [] op = "getFingerprintsMatches" -> <<"v1", "fingerprints">>
    [] op = "getFingerprintsFuzzyMatches" -> <<"v1", "fingerprints", "fuzzy">>

OperationNames ==
  { "getGames", "getGame", "getVersions", "getVersionTypes", "getCategories",
    "searchMods", "getMod", "getMods", "getFeaturedMods", "getModDescription",
    "getModFile", "getModFiles", "getFiles", "getModFileChangelog",
    "getModFileDownloadUrl", "getFingerprintsMatches",
    "getFingerprintsFuzzyMatches" }

Segment(s, args) ==
  IF s = "{1}" THEN ToString(args[1])
  ELSE IF s = "{2}" THEN ToString(args[2])
  ELSE s

RECURSIVE Render(_, _)
Render(t, args) ==
  IF t = <<>> THEN "" ELSE "/" \o Segment(Head(t), args) \o Render(Tail(t), args)

\* the template with its placeholders made anonymous
Shape(t) == [i \in 1..Len(t) |-> IF t[i] \in {"{1}", "{2}"} THEN "{}" ELSE t[i]]

MethodOf(op) == IF op \in PostOperations THEN "POST" ELSE "GET"

\* no two operations share a method and a path template
EndpointsDistinct ==
  \A o1, o2 \in OperationNames :
    o1 # o2 =>
      <<MethodOf(o1), Shape(PathTemplate(o1))>> #
        <<MethodOf(o2), Shape(PathTemplate(o2))>>

C14_PositionalPaths ==
  /\ \A c \in DOMAIN inflight :
       LET call == inflight[c] IN
       /\ call.op \in OperationNames
       /\ call.config.url = Some(Render(PathTemplate(call.op), call.args))
       /\ call.config.method = Some(MethodOf(call.op))
  /\ EndpointsDistinct

C14_Witness ==
  \E c, d \in DOMAIN inflight :
    /\ inflight[c].op = "getModFile"
    /\ inflight[c].args = <<7, 9>>
    /\ inflight[c].config.url = Some("/v1/mods/7/files/9")
    /\ inflight[d].op = "getModFiles"
    /\ inflight[d].config.url = Some("/v1/mods/7/files")
    /\ inflight[d].config.method = Some("GET")

\* C15: the constructor works on the caller's own options object: it writes
\* the production endpoint into baseURL only when baseURL is null or
\* undefined, leaves any other baseURL (the empty string included) as it is,
\* never writes apiKey, and leaves the object untouched when it fails; the
\* requests then read the base URL from that same object.
C15_OptionsInPlace ==
  /\ client \in {"new", "failed"} => options = passed
  /\ client = "ready" =>
       /\ options.apiKey = passed.apiKey
       /\ (passed.baseURL = None \/ passed.baseURL = Null) =>
            options.baseURL = Some("https://api.curseforge.com")
       /\ (passed.baseURL # None /\ passed.baseURL # Null) =>
            options.baseURL = passed.baseURL
       /\ passed.baseURL = Some("") => options.baseURL = Some("")
  /\ \A c \in DOMAIN inflight : inflight[c].config.baseURL = options.baseURL

C15_Witness ==
  /\ client = "ready"
  /\ passed.baseURL = Some("")
  /\ options.baseURL = Some("")
  /\ \E c \in DOMAIN inflight : inflight[c].config.baseURL = Some("")

C15_WitnessNull ==
  /\ client = "ready"
  /\ passed.baseURL = Null
  /\ options.baseURL = Some("https://api.curseforge.com")
====
